---- MODULE Spec2Model ----
(***************************************************************************)
(* Semi-automatic bottle filling machine (src/src/main.cpp, V1.3).         *)
(* The firmware is one sequential program: setup() runs once after         *)
(* power-up, then loop() runs forever.  The model follows the program      *)
(* counter through setup(), selection(), calibrateFunction(),              *)
(* inspectContents(), loop() and control().  Every digitalRead() and every *)
(* scale.read() is an input chosen by the environment at the moment the    *)
(* code executes it.                                                       *)
(***************************************************************************)
EXTENDS Integers, Sequences, FiniteSets, TLC

VARIABLES
  pc,             \* position of the program
  val,            \* long val[4]: thresholds, slot 3 is Manual
  index,          \* byte index: current mode
  selectedMode,   \* int selectedMode
  State,          \* static uint16_t State of DebounceSwitch()
  eeprom,         \* the EEPROM bytes 0..11
  relay,          \* RELAY_PIN level
  led,            \* LED_BUILTIN level
  lcd,            \* what the display shows: <<screen, argument>>
  switchState,    \* loop(): int switchState
  reading,        \* loop(): long reading
  dRead,          \* level returned by the last digitalRead(DISPENSE)
  mRead,          \* level returned by the last digitalRead(MODE) outside DebounceSwitch
  localVal,       \* control(): argument
  medianArray,    \* control(): long medianArray[3]
  medianValue,    \* control(): long medianValue
  selectionIndex, \* selection(): int selectionIndex
  localIndex,     \* calibrateFunction(): argument
  localValue,     \* calibrateFunction(): long localValue
  flag,           \* calibrateFunction(): int flag
  inspectIndex,   \* inspectContents(): int inspectIndex
  bootD,          \* DISPENSE level at power-up
  bootM,          \* MODE level at power-up
  ranCalib,       \* history: calibration workflow entered in this boot
  ranInspect,     \* history: inspection workflow entered in this boot
  passes,         \* history: filter passes completed in the current control() call
                  \* (0, 1, then 2 and 3 in turn: every pass is a step)
  passReads,      \* history: scale.read() calls made by the last filter pass
  modeHist,       \* history: the levels sampled by the last 12 DebounceSwitch() polls
  advances,       \* history: mode advances made by loop(), saturating
  inspectReads,   \* history: scale.read() calls made by the last inspection iteration
  inspectSensed,  \* history: the sign-corrected value of that scale.read()
  capSample,      \* history: the last scale.get_units(5) * -1 of the capture loop
  polls,          \* history: evaluations of the capture loop (0, 1, more)
  loopPressed,    \* history: a DebounceSwitch() poll of loop() sampled MODE pressed
  edge,           \* debounce harness: result of the last poll
  runLen,         \* debounce harness: length of the latest run of pressed samples
  relBefore,      \* debounce harness: released samples right before that run
  relAfter,       \* debounce harness: released samples since that run
  trigInRun,      \* debounce harness: Triggered results while that run was held
  cv,             \* codec harness: value written
  ca,             \* codec harness: address written
  cr,             \* codec harness: value read back
  cpc             \* codec harness: position

progVars == <<pc, val, index, selectedMode, State, eeprom, relay, led, lcd,
              switchState, reading, dRead, mRead, localVal, medianArray,
              medianValue, selectionIndex, localIndex, localValue, flag,
              inspectIndex>>
histVars == <<bootD, bootM, ranCalib, ranInspect, passes, passReads,
              modeHist, advances>>
obsVars == <<inspectReads, inspectSensed, capSample, polls, loopPressed>>
debVars == <<edge, runLen, relBefore, relAfter, trigInRun>>
codecVars == <<cv, ca, cr, cpc>>
vars == <<progVars, histVars, obsVars, debVars, codecVars>>

----------------------------------------------------------------------------
(* Bounds of the model *)

\* Sign-corrected readings range over Sentinel - 1 .. MaxNegRaw: the lowest
\* one is the reading below the -1 sentinel.
MaxNegRaw == 0
\* The MODE presses polled by the program are clean: a press is sampled as
\* pressed on 1..MaxPressRun consecutive DebounceSwitch() polls and the next
\* press comes after at least RunLength released polls (the debounce harness
\* polls any sequence of levels).
MaxPressRun == 2

(* Program constants *)
RunLength == 12
Sentinel == -1
ModeCount == 4
MedianCount == 3

PRESSED == 0
RELEASED == 1
Levels == {PRESSED, RELEASED}

address == (0 :> 0) @@ (1 :> 4) @@ (2 :> 8)
DefaultVal == (0 :> 220000) @@ (1 :> 240000) @@ (2 :> 250000) @@ (3 :> -1)

\* Raw values scale.read() can return; the code multiplies each by -1.
RawValues == (0 - MaxNegRaw)..(0 - (Sentinel - 1))
Readings == {raw * (-1) : raw \in RawValues}

----------------------------------------------------------------------------
(* Integer arithmetic of the AVR build: long is 32 bits, two's complement *)

Pow2(n) == 2^n

RECURSIVE BitOr(_, _, _)
BitOr(a, b, w) ==
  IF w = 0 THEN 0
  ELSE (IF (a % 2 = 1) \/ (b % 2 = 1) THEN 1 ELSE 0)
       + 2 * BitOr(a \div 2, b \div 2, w - 1)

RECURSIVE BitAnd(_, _, _)
BitAnd(a, b, w) ==
  IF w = 0 THEN 0
  ELSE (IF (a % 2 = 1) /\ (b % 2 = 1) THEN 1 ELSE 0)
       + 2 * BitAnd(a \div 2, b \div 2, w - 1)

\* value >> k on a signed long is an arithmetic shift: the floor of
\* value / 2^k.
ShiftRight(value, k) == value \div Pow2(k)

\* x & 0xFF on a two's complement long: the low eight bits.
LowByte(x) == x % 256

\* The long that holds the unsigned 32-bit value b * 2^24 (b a byte): bit 31
\* is the sign bit.
TopByteAsLong(b) == IF b >= 128 THEN (b - 256) * Pow2(24) ELSE b * Pow2(24)

----------------------------------------------------------------------------
(* Non-volatile storage: EEPROMWrite / EEPROMRead *)

EepromAddrs == 0..11
FactoryEeprom == [a \in EepromAddrs |-> 255]

\* Fault-injection variant: the most significant byte goes to the lowest
\* address.
EEPROMWriteBigEndian(mem, addr, value) ==
  [mem EXCEPT ![addr]     = LowByte(ShiftRight(value, 24)),
              ![addr + 1] = LowByte(ShiftRight(value, 16)),
              ![addr + 2] = LowByte(ShiftRight(value, 8)),
              ![addr + 3] = LowByte(value)]

\* Fault-injection variant: the bytes are taken with a division that rounds
\* toward zero instead of the arithmetic shift.
EEPROMWriteDivide(mem, addr, value) ==
  LET Quot(v, k) == IF v < 0 /\ v % Pow2(k) # 0 THEN (v \div Pow2(k)) + 1
                                                 ELSE v \div Pow2(k)
  IN  [mem EXCEPT ![addr]     = LowByte(value),
                  ![addr + 1] = LowByte(Quot(value, 8)),
                  ![addr + 2] = LowByte(Quot(value, 16)),
                  ![addr + 3] = LowByte(Quot(value, 24))]

\* Bytes four, three, two, one are value & 0xFF, (value >> 8) & 0xFF,
\* (value >> 16) & 0xFF, (value >> 24) & 0xFF and go to address,
\* address + 1, address + 2, address + 3.
EEPROMWrite(mem, addr, value) ==
  [mem EXCEPT ![addr]     = LowByte(value),
              ![addr + 1] = LowByte(ShiftRight(value, 8)),
              ![addr + 2] = LowByte(ShiftRight(value, 16)),
              ![addr + 3] = LowByte(ShiftRight(value, 24))]

\* ((four << 0) & 0xFF) + ((three << 8) & 0xFFFF) + ((two << 16) & 0xFFFFFF)
\* + ((one << 24) & 0xFFFFFFFF).  0xFFFFFFFF is an unsigned long, so the sum
\* is taken modulo 2^32 and converted back to long on return: the first
\* three terms stay below 2^24 and the last one supplies bits 24..31.
EEPROMRead(mem, addr) ==
  LET four  == mem[addr]
      three == mem[addr + 1]
      two   == mem[addr + 2]
      one   == mem[addr + 3]
  IN  BitAnd(four, 255, 24)
      + BitAnd(three * Pow2(8), 65535, 24)
      + BitAnd(two * Pow2(16), 16777215, 24)
      + TopByteAsLong(one)

\* The EEPROM after the three presets were stored by EEPROMWrite.
StoreTable(t) ==
  EEPROMWrite(EEPROMWrite(EEPROMWrite(FactoryEeprom, address[0], t[1]),
                          address[1], t[2]),
              address[2], t[3])

\* Contents the EEPROM can have at power-up: erased, or calibrated by
\* earlier boots (a threshold is a sign-corrected reading).
InitTables == { <<Sentinel, Sentinel, Sentinel>>,
                <<MaxNegRaw, Sentinel - 1, Sentinel>> }
InitEeproms == { StoreTable(t) : t \in InitTables }

----------------------------------------------------------------------------
(* DebounceSwitch *)

\* State = (State << 1) | !digitalRead(MODE) | 0xe000, in 16 bits.
DebounceShift(s, level) ==
  BitOr(BitOr((s * 2) % Pow2(16), IF level = 0 THEN 1 ELSE 0, 16), 57344, 16)

\* if (State == 0xf000) return 1; return 0;
DebounceResult(s) == IF s = 61440 THEN 1 ELSE 0

----------------------------------------------------------------------------
(* The display *)

Home(i) == IF i = 3 THEN <<"Manual Mode", i, 0>> ELSE <<"Volume", i, 0>>
Blank == <<"", 0, 0>>

----------------------------------------------------------------------------
(* Initial state: the globals as initialised at lines 51-55 and 412 *)

InitProgram ==
  /\ pc = "setup"
  /\ val = DefaultVal
  /\ index = 0
  /\ selectedMode = 0
  /\ State = 0
  /\ eeprom \in InitEeproms
  /\ relay = FALSE
  /\ led = FALSE
  /\ lcd = Blank
  /\ switchState = 0
  /\ reading = 0
  /\ dRead = RELEASED
  /\ mRead = RELEASED
  /\ localVal = 0
  /\ medianArray = <<0, 0, 0>>
  /\ medianValue = 0
  /\ selectionIndex = 0
  /\ localIndex = 0
  /\ localValue = 0
  /\ flag = 0
  /\ inspectIndex = 0

InitHistory ==
  /\ ranCalib = FALSE
  /\ ranInspect = FALSE
  /\ passes = 0
  /\ passReads = 0
  /\ modeHist = [i \in 1..RunLength |-> RELEASED]
  /\ advances = 0

InitObservers ==
  /\ inspectReads = 0
  /\ inspectSensed = 0
  /\ capSample = 0
  /\ polls = 0
  /\ loopPressed = FALSE

InitDebounceHarness ==
  /\ edge = 0
  /\ runLen = 0
  /\ relBefore = 0
  /\ relAfter = 0
  /\ trigInRun = 0

InitCodecHarness ==
  /\ cv = 0
  /\ ca = 0
  /\ cr = 0
  /\ cpc = "idle"

Init ==
  /\ InitProgram
  /\ InitHistory
  /\ InitObservers
  /\ bootD \in Levels
  /\ bootM \in Levels
  /\ InitDebounceHarness
  /\ InitCodecHarness

\* Levels a DebounceSwitch() poll of the program may sample.
PollLevels ==
  LET pressedAt == {i \in 1..RunLength : modeHist[i] = PRESSED}
      run == {i \in 1..RunLength : \A j \in i..RunLength : modeHist[j] = PRESSED}
  IN  IF pressedAt = {} \/ (run # {} /\ pressedAt = run /\ Cardinality(run) < MaxPressRun)
        THEN Levels ELSE {RELEASED}

Sampled(level) == Append(Tail(modeHist), level)

----------------------------------------------------------------------------
(* setup(), lines 77-95 *)

\* Line 78: both buttons held at power-up enter selection(); && reads MODE
\* only when DISPENSE reads 0.
SetupEntry ==
  /\ pc = "setup"
  /\ dRead' = bootD
  /\ mRead' = IF bootD = PRESSED THEN bootM ELSE mRead
  /\ IF bootD = PRESSED /\ bootM = PRESSED
       THEN /\ pc' = "sel_wait"
            /\ lcd' = <<"Entering Calib", 0, 0>>
            /\ ranCalib' = TRUE
       ELSE /\ pc' = "setup_load"
            /\ UNCHANGED <<lcd, ranCalib>>
  /\ UNCHANGED <<val, index, selectedMode, State, eeprom, relay, led,
                 switchState, reading, localVal, medianArray, medianValue,
                 selectionIndex, localIndex, localValue, flag, inspectIndex>>
  /\ UNCHANGED <<bootD, bootM, ranInspect, passes, passReads,
                 modeHist, advances>>
  /\ UNCHANGED <<obsVars, debVars, codecVars>>

\* Lines 85-94: load the thresholds, then sample both buttons again.  When
\* no calibration ran, no time has passed since line 78 and the samples are
\* the power-up levels; after a calibration they are fresh samples.
SetupLoad ==
  /\ pc = "setup_load"
  /\ val' = [i \in 0..3 |-> IF i < 3 THEN EEPROMRead(eeprom, address[i]) ELSE val[i]]
  /\ \E m \in (IF ranCalib THEN Levels ELSE {bootM}),
        d \in (IF ranCalib THEN Levels ELSE {bootD}) :
       /\ mRead' = m
       /\ dRead' = d
       /\ IF m # d
            THEN /\ pc' = "inspect"
                 /\ ranInspect' = TRUE
                 /\ inspectIndex' = 0
                 /\ lcd' = Blank
            ELSE /\ pc' = "loop"
                 /\ lcd' = Home(index)
                 /\ UNCHANGED <<ranInspect, inspectIndex>>
  /\ UNCHANGED <<index, selectedMode, State, eeprom, relay, led,
                 switchState, reading, localVal, medianArray, medianValue,
                 selectionIndex, localIndex, localValue, flag>>
  /\ UNCHANGED <<bootD, bootM, ranCalib, passes, passReads,
                 modeHist, advances>>
  /\ UNCHANGED <<obsVars, debVars, codecVars>>

----------------------------------------------------------------------------
(* selection(), lines 309-344 *)

\* Line 316: wait until both buttons are released; || reads MODE only when
\* DISPENSE reads 1.  Then the prompts and updateMode(selectionIndex).
SelectionWait ==
  /\ pc = "sel_wait"
  /\ \E d \in Levels, m \in Levels :
       /\ dRead' = d
       /\ mRead' = IF d = PRESSED THEN mRead ELSE m
       /\ IF d = PRESSED \/ m = PRESSED
            THEN UNCHANGED <<pc, lcd, selectionIndex>>
            ELSE /\ pc' = "sel_loop"
                 /\ selectionIndex' = 0
                 /\ lcd' = Home(selectionIndex')
  /\ UNCHANGED <<val, index, selectedMode, State, eeprom, relay, led,
                 switchState, reading, localVal, medianArray, medianValue,
                 localIndex, localValue, flag, inspectIndex>>
  /\ UNCHANGED <<histVars, obsVars, debVars, codecVars>>

\* selectionIndex++; if (selectionIndex > 2) selectionIndex = 0;
NextSelection(i) == IF i + 1 > 2 THEN 0 ELSE i + 1

\* Lines 327-341: one iteration of the selection loop.
SelectionLoop ==
  /\ pc = "sel_loop"
  /\ \E level \in PollLevels, d \in Levels :
       LET s == DebounceShift(State, level)
           localSwitchState == DebounceResult(s)
       IN  /\ State' = s
           /\ modeHist' = Sampled(level)
           /\ dRead' = d
           /\ lcd' = Home(selectionIndex)
           /\ selectionIndex' = IF localSwitchState = 1
                                  THEN NextSelection(selectionIndex)
                                  ELSE selectionIndex
           /\ pc' = IF d = PRESSED THEN "sel_ret" ELSE "sel_loop"
  /\ UNCHANGED <<val, index, selectedMode, eeprom, relay, led,
                 switchState, reading, mRead, localVal, medianArray, medianValue,
                 localIndex, localValue, flag, inspectIndex>>
  /\ UNCHANGED <<bootD, bootM, ranCalib, ranInspect, passes,
                 passReads, advances>>
  /\ UNCHANGED <<obsVars, debVars, codecVars>>

\* Lines 342-343 and 79-82, 219-240: selection() returns, setup() stores the
\* result and calls calibrateFunction(selectedMode), which copies the
\* in-memory threshold and shows its prompts.
SelectionReturn ==
  /\ pc = "sel_ret"
  /\ selectedMode' = selectionIndex
  /\ localIndex' = selectionIndex
  /\ localValue' = val[selectionIndex]
  /\ flag' = 0
  /\ lcd' = <<"Release to save value", selectionIndex, 0>>
  /\ pc' = "calib"
  /\ UNCHANGED <<val, index, State, eeprom, relay, led, switchState, reading,
                 dRead, mRead, localVal, medianArray, medianValue,
                 selectionIndex, inspectIndex>>
  /\ UNCHANGED <<histVars, obsVars, debVars, codecVars>>

----------------------------------------------------------------------------
(* calibrateFunction(), lines 218-265 *)

\* Fault-injection variant: the capture loop is left at the first released
\* sample, pressed before or not.
CaptureWaitingNever(f) == FALSE

\* while (flag == 0)
CaptureWaiting(f) == f = 0

\* Lines 241-253: one evaluation of digitalRead(MODE) in the capture loop.
\* Held: relay and indicator on, localValue = scale.get_units(5) * -1,
\* flag = 1.  Released: relay and indicator off, and the outer loop ends
\* once flag is set.
CalibrateCapture ==
  /\ pc = "calib"
  /\ \E m \in Levels :
       /\ mRead' = m
       /\ IF m = PRESSED
            THEN /\ \E raw \in RawValues : /\ localValue' = raw * (-1)
                                           /\ capSample' = raw * (-1)
                 /\ relay' = TRUE
                 /\ led' = TRUE
                 /\ flag' = 1
                 /\ pc' = "calib"
            ELSE /\ relay' = FALSE
                 /\ led' = FALSE
                 /\ pc' = IF CaptureWaiting(flag) THEN "calib" ELSE "calib_save"
                 /\ UNCHANGED <<localValue, flag, capSample>>
  /\ polls' = IF polls < 2 THEN polls + 1 ELSE polls
  /\ UNCHANGED <<val, index, selectedMode, State, eeprom, lcd, switchState,
                 reading, dRead, localVal, medianArray, medianValue,
                 selectionIndex, localIndex, inspectIndex>>
  /\ UNCHANGED <<inspectReads, inspectSensed, loopPressed>>
  /\ UNCHANGED <<histVars, debVars, codecVars>>

\* Fault-injection variant: the in-memory threshold is stored instead of the
\* captured value.
CalibrateSaveOldValue ==
  /\ pc = "calib_save"
  /\ eeprom' = EEPROMWrite(eeprom, address[localIndex], val[localIndex])
  /\ lcd' = Blank
  /\ pc' = "setup_load"
  /\ polls' = 0
  /\ UNCHANGED <<val, index, selectedMode, State, relay, led, switchState,
                 reading, dRead, mRead, localVal, medianArray, medianValue,
                 selectionIndex, localIndex, localValue, flag, inspectIndex>>
  /\ UNCHANGED <<inspectReads, inspectSensed, capSample, loopPressed>>
  /\ UNCHANGED <<histVars, debVars, codecVars>>

\* Lines 254-263: show the value and store it at address[localIndex].
CalibrateSave ==
  /\ pc = "calib_save"
  /\ eeprom' = EEPROMWrite(eeprom, address[localIndex], localValue)
  /\ lcd' = Blank
  /\ pc' = "setup_load"
  /\ polls' = 0
  /\ UNCHANGED <<val, index, selectedMode, State, relay, led, switchState,
                 reading, dRead, mRead, localVal, medianArray, medianValue,
                 selectionIndex, localIndex, localValue, flag, inspectIndex>>
  /\ UNCHANGED <<inspectReads, inspectSensed, capSample, loopPressed>>
  /\ UNCHANGED <<histVars, debVars, codecVars>>

----------------------------------------------------------------------------
(* inspectContents(), lines 353-407 *)

\* Fault-injection variant: the slot wraps after the third preset.
NextInspectPresetsOnly(i) == IF i + 1 > 2 THEN 0 ELSE i + 1

\* inspectIndex++; if (inspectIndex > 3) inspectIndex = 0;
NextInspect(i) == IF i + 1 > 3 THEN 0 ELSE i + 1

\* Lines 373-405: one iteration of the inspection loop; on a DISPENSE press
\* the function returns and setup() shows the home screen (line 94).
InspectLoop ==
  /\ pc = "inspect"
  /\ \E level \in PollLevels, d \in Levels :
       LET s == DebounceShift(State, level)
           inspectSwitchState == DebounceResult(s)
           i == IF inspectSwitchState = 1 THEN NextInspect(inspectIndex)
                                          ELSE inspectIndex
       IN  \E raw \in (IF i < 3 THEN {0} ELSE RawValues) :
           /\ State' = s
           /\ modeHist' = Sampled(level)
           /\ dRead' = d
           /\ inspectIndex' = i
           /\ inspectReads' = IF i < 3 THEN 0 ELSE 1
           /\ inspectSensed' = IF i < 3 THEN 0 ELSE raw * (-1)
           /\ IF d = PRESSED
                THEN /\ pc' = "loop"
                     /\ lcd' = Home(index)
                ELSE /\ pc' = "inspect"
                     /\ lcd' = IF i < 3 THEN <<"VOLUME", i, val[i]>>
                                        ELSE <<"Current val", i, raw * (-1)>>
  /\ UNCHANGED <<val, index, selectedMode, eeprom, relay, led, switchState,
                 reading, mRead, localVal, medianArray, medianValue,
                 selectionIndex, localIndex, localValue, flag>>
  /\ UNCHANGED <<bootD, bootM, ranCalib, ranInspect, passes,
                 passReads, advances>>
  /\ UNCHANGED <<capSample, polls, loopPressed>>
  /\ UNCHANGED <<debVars, codecVars>>

----------------------------------------------------------------------------
(* loop(), lines 97-127 *)

\* Fault-injection variant: a reading equal to the threshold also starts.
StartDispenseOrEqual(d, r, t) == d = PRESSED /\ r <= t

\* Line 108: digitalRead(DISPENSE) == 0 && reading < val[index]
StartDispense(d, r, t) == d = PRESSED /\ r < t

\* Lines 99-118: poll the debouncer, read the scale, sample DISPENSE; when
\* DISPENSE is held and the reading is below val[index], switch indicator
\* and relay on and call control(val[index]), whose first statements pick
\* the thresholded or the manual branch (line 141, 173-177).  The history
\* of the boot is kept up to the first iteration only.  The display is
\* modelled by screen and mode index (line 113 prints VOLUME[index], which
\* has no element for index 3).
LoopSample ==
  /\ pc = "loop"
  /\ \E level \in PollLevels, raw \in RawValues, d \in Levels :
       LET s == DebounceShift(State, level)
           r == raw * (-1)
       IN  /\ State' = s
           /\ modeHist' = Sampled(level)
           /\ switchState' = DebounceResult(s)
           /\ reading' = r
           /\ dRead' = d
           /\ loopPressed' = (loopPressed \/ level = PRESSED)
           /\ IF StartDispense(d, r, val[index])
                THEN /\ led' = TRUE
                     /\ relay' = TRUE
                     /\ localVal' = val[index]
                     /\ IF val[index] # -1
                          THEN /\ pc' = "ctl_pass"
                               /\ lcd' = <<"Dispensing", index, 0>>
                          ELSE /\ pc' = "ctl_manual"
                               /\ lcd' = <<"Manual mode Dispensing", index, 0>>
                ELSE /\ pc' = "loop_mode"
                     /\ UNCHANGED <<led, relay, localVal, lcd>>
  /\ passes' = 0
  /\ passReads' = 0
  /\ mRead' = RELEASED
  /\ localIndex' = 0
  /\ localValue' = 0
  /\ flag' = 0
  /\ bootD' = RELEASED
  /\ bootM' = RELEASED
  /\ ranCalib' = FALSE
  /\ ranInspect' = FALSE
  /\ inspectIndex' = 0
  /\ inspectReads' = 0
  /\ inspectSensed' = 0
  /\ capSample' = 0
  /\ polls' = 0
  /\ UNCHANGED <<val, index, selectedMode, eeprom, medianArray, medianValue,
                 selectionIndex, advances>>
  /\ UNCHANGED <<debVars, codecVars>>

\* Fault-injection variant: the wrap test of selection() (index > 2).
NextIndexPresetsOnly(i) == IF i + 1 > 2 THEN 0 ELSE i + 1

\* index++; if (index > 3) index = 0;
NextIndex(i) == IF i + 1 > 3 THEN 0 ELSE i + 1

\* Lines 119-126: advance the mode on a debounced edge and redraw; the
\* iteration ends and its locals go out of scope.
LoopMode ==
  /\ pc = "loop_mode"
  /\ IF switchState = 1
       THEN /\ index' = NextIndex(index)
            /\ lcd' = Home(index')
            /\ advances' = IF advances < ModeCount THEN advances + 1 ELSE advances
       ELSE UNCHANGED <<index, lcd, advances>>
  /\ switchState' = 0
  /\ reading' = 0
  /\ dRead' = RELEASED
  /\ pc' = "loop"
  /\ UNCHANGED <<val, selectedMode, State, eeprom, relay, led, mRead, localVal,
                 medianArray, medianValue, selectionIndex, localIndex,
                 localValue, flag, inspectIndex>>
  /\ UNCHANGED <<bootD, bootM, ranCalib, ranInspect, passes,
                 passReads, modeHist>>
  /\ UNCHANGED <<obsVars, debVars, codecVars>>

----------------------------------------------------------------------------
(* control(), lines 136-184 *)

\* for (byte m = 0; m < n; m++): the number of readings one pass logs.
SampleCount(n) == n

Swap(a, t) == [a EXCEPT ![t + 1] = a[t + 2], ![t + 2] = a[t + 1]]

\* for (byte t = 0; t < n - s - 1; t++) if (a[t] > a[t + 1]) swap
RECURSIVE BubbleInner(_, _, _)
BubbleInner(a, t, lim) ==
  IF t >= lim THEN a
  ELSE BubbleInner(IF a[t + 1] > a[t + 2] THEN Swap(a, t) ELSE a, t + 1, lim)

\* for (byte s = 0; s < n - 1; s++)
RECURSIVE BubbleOuter(_, _, _)
BubbleOuter(a, s, n) ==
  IF s >= n - 1 THEN a
  ELSE BubbleOuter(BubbleInner(a, 0, n - s - 1), s + 1, n)

\* medianValue = medianArray[(n + 1) / 2], a 0-based index.
MedianOf(a, n) == a[((n + 1) \div 2) + 1]

\* Fault-injection variant: the loop condition is always true.
ContinueDispenseAlways(t, r) == TRUE

\* Fault-injection variant: the loop also continues when the difference is 0.
ContinueDispenseOrEqual(t, r) == t - r >= 0

\* while (localVal - medianValue > 0).  Readings come from a 24-bit converter
\* and thresholds are captured readings or -1, so the difference fits a long.
ContinueDispense(t, r) == t - r > 0

\* Fault-injection variant: the wait ends on a press instead of a release.
ManualHeldInverted(d) == d # 0

\* while (digitalRead(DISPENSE) == 0) {}
ManualHeld(d) == d = 0

\* Lines 142-169: one pass of the do-while loop.  loop()'s reading is not
\* used after line 108 and is dropped.
ControlPass ==
  /\ pc = "ctl_pass"
  /\ \E raws \in [1..SampleCount(MedianCount) -> RawValues] :
       LET logged == [m \in 1..MedianCount |->
                        IF m <= SampleCount(MedianCount) THEN (-1) * raws[m]
                                                         ELSE medianArray[m]]
           sorted == BubbleOuter(logged, 0, MedianCount)
       IN  /\ passReads' = SampleCount(MedianCount)
           /\ medianArray' = sorted
           /\ medianValue' = MedianOf(sorted, MedianCount)
           /\ passes' = IF passes < 3 THEN passes + 1 ELSE 2
           /\ pc' = IF ContinueDispense(localVal, medianValue')
                      THEN "ctl_pass" ELSE "ctl_end"
  /\ reading' = 0
  /\ UNCHANGED <<val, index, selectedMode, State, eeprom, relay, led, lcd,
                 switchState, dRead, mRead, localVal, selectionIndex,
                 localIndex, localValue, flag, inspectIndex>>
  /\ UNCHANGED <<bootD, bootM, ranCalib, ranInspect, modeHist, advances>>
  /\ UNCHANGED <<obsVars, debVars, codecVars>>

\* Line 178: one evaluation of the busy-wait condition.
ControlManual ==
  /\ pc = "ctl_manual"
  /\ \E d \in Levels :
       /\ dRead' = d
       /\ pc' = IF ManualHeld(d) THEN "ctl_manual" ELSE "ctl_end"
  /\ reading' = 0
  /\ UNCHANGED <<val, index, selectedMode, State, eeprom, relay, led, lcd,
                 switchState, mRead, localVal, medianArray,
                 medianValue, selectionIndex, localIndex, localValue, flag,
                 inspectIndex>>
  /\ UNCHANGED <<histVars, obsVars, debVars, codecVars>>

\* Fault-injection variant: control() returns without switching the relay
\* off.
ControlEndRelayKept ==
  /\ pc = "ctl_end"
  /\ led' = FALSE
  /\ relay' = relay
  /\ lcd' = Home(index)
  /\ pc' = "loop_mode"
  /\ localVal' = 0
  /\ medianArray' = <<0, 0, 0>>
  /\ medianValue' = 0
  /\ passes' = 0
  /\ passReads' = 0
  /\ reading' = 0
  /\ UNCHANGED <<val, index, selectedMode, State, eeprom, switchState,
                 dRead, mRead, selectionIndex, localIndex, localValue, flag,
                 inspectIndex>>
  /\ UNCHANGED <<bootD, bootM, ranCalib, ranInspect, modeHist, advances>>
  /\ UNCHANGED <<obsVars, debVars, codecVars>>

\* Lines 180-183: indicator and relay off, home screen, return to loop();
\* the locals of control() go out of scope.
ControlEnd ==
  /\ pc = "ctl_end"
  /\ led' = FALSE
  /\ relay' = FALSE
  /\ lcd' = Home(index)
  /\ pc' = "loop_mode"
  /\ localVal' = 0
  /\ medianArray' = <<0, 0, 0>>
  /\ medianValue' = 0
  /\ passes' = 0
  /\ passReads' = 0
  /\ reading' = 0
  /\ UNCHANGED <<val, index, selectedMode, State, eeprom, switchState,
                 dRead, mRead, selectionIndex, localIndex, localValue, flag,
                 inspectIndex>>
  /\ UNCHANGED <<bootD, bootM, ranCalib, ranInspect, modeHist, advances>>
  /\ UNCHANGED <<obsVars, debVars, codecVars>>

----------------------------------------------------------------------------
(* The program *)

Next ==
  \/ SetupEntry
  \/ SelectionWait
  \/ SelectionLoop
  \/ SelectionReturn
  \/ CalibrateCapture
  \/ CalibrateSave
  \/ SetupLoad
  \/ InspectLoop
  \/ LoopSample
  \/ LoopMode
  \/ ControlPass
  \/ ControlManual
  \/ ControlEnd

Spec == Init /\ [][Next]_vars

----------------------------------------------------------------------------
(* The boot with no button held: setup() goes straight to loop() *)

InitNormalBoot ==
  /\ InitProgram
  /\ InitHistory
  /\ InitObservers
  /\ bootD = RELEASED
  /\ bootM = RELEASED
  /\ InitDebounceHarness
  /\ InitCodecHarness

NextNormalBoot ==
  \/ SetupEntry
  \/ SetupLoad
  \/ LoopSample
  \/ LoopMode
  \/ ControlPass
  \/ ControlManual
  \/ ControlEnd

\* The processor never stops: inside control() the next pass of the
\* do-while loop, the next evaluation of the busy-wait condition and the
\* statements after the loops are always executed.
SpecLive ==
  /\ InitNormalBoot
  /\ [][NextNormalBoot]_vars
  /\ WF_vars(ControlPass)
  /\ WF_vars(ControlManual)
  /\ WF_vars(ControlEnd)

----------------------------------------------------------------------------
(* DebounceSwitch() polled on its own, with any sequence of MODE levels *)

InitDebounce ==
  /\ InitProgram
  /\ InitHistory
  /\ InitObservers
  /\ bootD = RELEASED
  /\ bootM = RELEASED
  /\ InitDebounceHarness
  /\ InitCodecHarness

Saturate(n) == IF n < RunLength + 1 THEN n + 1 ELSE n

\* One call of DebounceSwitch(); the harness keeps the shape of the latest
\* press: its length, the released samples before and after it, and the
\* Triggered results returned while it was held.
DebouncePoll ==
  /\ \E level \in Levels :
       LET s == DebounceShift(State, level)
           held == runLen > 0 /\ relAfter = 0
       IN  /\ State' = s
           /\ edge' = DebounceResult(s)
           /\ IF level = PRESSED
                THEN /\ runLen' = IF held THEN Saturate(runLen) ELSE 1
                     /\ relBefore' = IF held THEN relBefore ELSE relAfter
                     /\ trigInRun' = IF held THEN IF edge' = 1 THEN Saturate(trigInRun)
                                                               ELSE trigInRun
                                             ELSE edge'
                     /\ relAfter' = 0
                ELSE /\ relAfter' = Saturate(relAfter)
                     /\ UNCHANGED <<runLen, relBefore, trigInRun>>
  /\ UNCHANGED <<pc, val, index, selectedMode, eeprom, relay, led, lcd,
                 switchState, reading, dRead, mRead, localVal, medianArray,
                 medianValue, selectionIndex, localIndex, localValue, flag,
                 inspectIndex>>
  /\ UNCHANGED <<histVars, obsVars, codecVars>>

NextDebounce == DebouncePoll

SpecDebounce == InitDebounce /\ [][NextDebounce]_vars

----------------------------------------------------------------------------
(* EEPROMWrite() followed by EEPROMRead() on their own *)

\* Longs whose four bytes are taken from boundary byte values: they include
\* 0, -1, the smallest and the largest long.
ByteSamples == {0, 1, 127, 128, 255}
CodecValues ==
  { (IF b3 >= 128 THEN b3 - 256 ELSE b3) * 16777216 + b2 * 65536 + b1 * 256 + b0 :
      b0 \in ByteSamples, b1 \in ByteSamples, b2 \in ByteSamples, b3 \in ByteSamples }

InitCodec ==
  /\ InitProgram
  /\ InitHistory
  /\ InitObservers
  /\ bootD = RELEASED
  /\ bootM = RELEASED
  /\ InitDebounceHarness
  /\ InitCodecHarness

CodecWrite ==
  /\ cpc = "idle"
  /\ \E a \in {address[i] : i \in 0..2}, v \in CodecValues :
       /\ eeprom' = EEPROMWrite(eeprom, a, v)
       /\ ca' = a
       /\ cv' = v
  /\ cpc' = "written"
  /\ UNCHANGED cr
  /\ UNCHANGED <<pc, val, index, selectedMode, State, relay, led, lcd,
                 switchState, reading, dRead, mRead, localVal, medianArray,
                 medianValue, selectionIndex, localIndex, localValue, flag,
                 inspectIndex>>
  /\ UNCHANGED <<histVars, obsVars, debVars>>

CodecRead ==
  /\ cpc = "written"
  /\ cr' = EEPROMRead(eeprom, ca)
  /\ cpc' = "read"
  /\ UNCHANGED <<cv, ca>>
  /\ UNCHANGED <<progVars, histVars, obsVars, debVars>>

NextCodec == CodecWrite \/ CodecRead

SpecCodec == InitCodec /\ [][NextCodec]_vars

----------------------------------------------------------------------------
(* Properties of control() *)

Thresholded == localVal # Sentinel
PassDone == pc \in {"ctl_pass", "ctl_end"} /\ passes >= 1

\* C1: in a thresholded dispense every pass takes exactly 3 fresh readings,
\* at least one pass runs before control() ends, the relay stays on through
\* every pass whose representative r has t - r > 0 (no button is consulted),
\* and the loop exits after the first pass with r >= t.
C1_ThresholdedDispense ==
  /\ [](pc = "ctl_pass" => relay /\ Thresholded)
  /\ [](pc = "ctl_end" /\ Thresholded =>
          /\ passes >= 1
          /\ passReads = MedianCount
          /\ medianValue >= localVal
          /\ relay)
  /\ [][pc = "ctl_pass" =>
          /\ passReads' = MedianCount
          /\ (localVal - medianValue' > 0 => pc' = "ctl_pass" /\ relay')
          /\ (medianValue' >= localVal => pc' = "ctl_end")]_vars

\* A thresholded dispense that continued after one pass and ended after a
\* later one, the relay still on.
C1_Witness ==
  pc = "ctl_end" /\ Thresholded /\ passes >= 2 /\ relay

\* C2: the representative value of a filter pass is the middle (second)
\* element of the ascending-sorted triple, the true median.
C2_TrueMedian ==
  PassDone =>
    /\ medianValue = medianArray[2]
    /\ medianArray[1] <= medianValue
    /\ medianValue <= medianArray[3]

\* C3: a pass in which only one of the three readings is >= threshold does
\* not end the dispense loop; the relay stays on after it.
C3_StrayReadingIgnored ==
  (PassDone /\ Cardinality({m \in 1..MedianCount : medianArray[m] >= localVal}) = 1)
    => (pc = "ctl_pass" /\ relay)

\* C7: control(-1) never reads the weight sensor, keeps the relay on while
\* DISPENSE is sampled as held, and ends with relay and indicator off only
\* after DISPENSE was sampled as released.
C7_ManualDispense ==
  /\ [](pc = "ctl_manual" =>
          relay /\ led /\ ~Thresholded /\ passReads = 0 /\ passes = 0)
  /\ [](pc = "ctl_end" /\ ~Thresholded =>
          dRead = RELEASED /\ passReads = 0 /\ passes = 0)
  /\ [][pc = "ctl_manual" /\ dRead' = PRESSED =>
          pc' = "ctl_manual" /\ relay' /\ led']_vars
  /\ [][pc = "ctl_end" => ~relay' /\ ~led' /\ pc' = "loop_mode"]_vars

\* A manual dispense that has just seen DISPENSE released, relay still on.
C7_Witness ==
  pc = "ctl_end" /\ ~Thresholded /\ dRead = RELEASED /\ relay /\ passReads = 0

----------------------------------------------------------------------------
(* Properties of DebounceSwitch(), under SpecDebounce *)

\* C4: a transient of 1..11 pressed samples surrounded by released samples
\* never produces Triggered.
C4_TransientRejected ==
  ~(/\ edge = 1
    /\ runLen \in 1..(RunLength - 1)
    /\ relBefore >= 1
    /\ relAfter >= 1)

\* C5: once MODE went from released to held and stayed held for 12 polls,
\* Triggered has been returned exactly once for that press, and never again
\* while the button remains held.
C5_TriggeredOncePerPress ==
  (runLen >= RunLength /\ relAfter = 0 /\ relBefore >= 1) => trigInRun = 1

----------------------------------------------------------------------------
(* Properties of the storage codec, under SpecCodec *)

\* C6: EEPROMRead(a) after EEPROMWrite(a, v) returns v, for every long v and
\* every slot address a.
C6_RoundTrip == cpc = "read" => cr = cv

\* A negative value other than -1 was written and read back.
C6_Witness == cpc = "read" /\ cv < -1 /\ cr = cv /\ ca = address[2]

----------------------------------------------------------------------------
(* Properties of loop() and setup() *)

\* C8: with Manual mode selected (index 3), a held DISPENSE starts manual
\* dispensing whatever the reading is: the relay is switched on.
C8_ManualStartsOnPress ==
  [][pc = "loop" /\ index = 3 /\ dRead' = PRESSED =>
       relay' /\ pc' = "ctl_manual"]_vars

\* C9: index stays in 0..3; it changes only at the mode step of an iteration
\* whose poll returned Triggered, and then from i to (i + 1) mod 4.
C9_ModeCycling ==
  /\ [](index \in 0..(ModeCount - 1))
  /\ [][index' # index => pc = "loop_mode" /\ switchState = 1]_vars
  /\ [][pc = "loop_mode" /\ switchState = 1 =>
          index' = (index + 1) % ModeCount]_vars

\* The index has gone through 0, 1, 2, 3 and wrapped to 0.
C9_Witness == pc = "loop" /\ advances >= ModeCount /\ index = 0

\* C10: calibration runs iff both buttons are held at power-up, inspection
\* iff exactly one is held, and never both in one boot.
C10_BootPaths ==
  pc \in {"inspect", "loop"} =>
    /\ ranCalib <=> (bootD = PRESSED /\ bootM = PRESSED)
    /\ ranInspect <=> (bootD # bootM)
    /\ ~(ranCalib /\ ranInspect)

----------------------------------------------------------------------------
(* Properties of inspectContents() *)

\* C11: the inspection slot stays in 0..3; an iteration moves it from i to
\* (i + 1) mod 4 exactly when its poll returned Triggered; every iteration
\* that shows slot 3 takes one scale reading and displays that reading; the
\* workflow ends exactly when DISPENSE is sampled as pressed.
C11_InspectionSlots ==
  /\ [](pc = "inspect" => inspectIndex \in 0..(ModeCount - 1))
  /\ [][pc = "inspect" =>
          inspectIndex' = IF DebounceResult(State') = 1
                            THEN (inspectIndex + 1) % ModeCount
                            ELSE inspectIndex]_vars
  /\ [][pc = "inspect" /\ inspectIndex' = 3 =>
          /\ inspectReads' = 1
          /\ pc' = "inspect" => lcd' = <<"Current val", 3, inspectSensed'>>]_vars
  /\ [][pc = "inspect" => (pc' = "loop" <=> dRead' = PRESSED)]_vars

\* An inspection iteration whose poll returned Triggered has shown slot 0:
\* the slot has wrapped from 3 to 0.
C11_Witness ==
  /\ pc = "inspect"
  /\ inspectIndex = 0
  /\ DebounceResult(State) = 1
  /\ lcd = <<"VOLUME", 0, val[0]>>

----------------------------------------------------------------------------
(* Properties of calibrateFunction() *)

\* C12: once the calibration of preset i has completed, the value stored at
\* address[i] is the last sample of the capture loop, and when the main loop
\* starts val[i] equals that sample and val[3] is still -1.
C12_CalibrationPersisted ==
  /\ (pc = "setup_load" /\ ranCalib) =>
        EEPROMRead(eeprom, address[selectedMode]) = capSample
  /\ (pc = "loop" /\ ranCalib) =>
        /\ EEPROMRead(eeprom, address[selectedMode]) = capSample
        /\ val[selectedMode] = capSample
        /\ val[3] = Sentinel

\* The main loop starts after preset 1 was calibrated to a value no earlier
\* boot had stored there.
C12_Witness ==
  /\ pc = "loop"
  /\ ranCalib
  /\ selectedMode = 1
  /\ capSample = MaxNegRaw
  /\ val[1] = MaxNegRaw

\* C13 as stated: when MODE is sampled released and was not pressed before in
\* the capture step, the capture loop does not iterate, and the captured
\* value and the stored thresholds stay as they were.
C13_NoPressLeavesLoop ==
  [][pc = "calib" /\ flag = 0 /\ mRead' = RELEASED =>
       /\ pc' # "calib"
       /\ localValue' = val[localIndex]
       /\ eeprom' = eeprom]_vars

\* C13 amended: as long as MODE has not been sampled pressed in the capture
\* step, the loop at line 241 keeps iterating with relay and indicator off,
\* the captured value stays the in-memory val[i], neither storage nor val
\* changes, and calibrateFunction() returns only after a pressed sample.
C13_NoPressKeepsWaiting ==
  /\ [](pc = "calib" /\ flag = 0 =>
          localValue = val[localIndex] /\ ~relay /\ ~led)
  /\ [][pc = "calib" /\ flag = 0 /\ mRead' = RELEASED =>
          /\ pc' = "calib"
          /\ flag' = 0
          /\ localValue' = localValue
          /\ eeprom' = eeprom
          /\ val' = val]_vars
  /\ [](pc = "calib_save" => flag = 1)

\* The capture loop has iterated at least twice without a pressed sample.
C13_Witness ==
  pc = "calib" /\ flag = 0 /\ polls >= 2 /\ mRead = RELEASED

----------------------------------------------------------------------------
(* Properties of the main loop *)

InControl == pc \in {"ctl_pass", "ctl_manual", "ctl_end"}

\* C14: an iteration of loop() calls control() iff DISPENSE is sampled as
\* held and the reading of that iteration is below val[index]; control()
\* gets val[index] of the mode that is active at that moment, and the mode
\* advance of the iteration comes only after control() has returned.
C14_DispenseTrigger ==
  /\ [][pc = "loop" =>
          /\ InControl' <=> (dRead' = PRESSED /\ reading' < val[index])
          /\ InControl' => localVal' = val[index] /\ relay'
          /\ index' = index /\ val' = val]_vars
  /\ [][InControl => index' = index]_vars
  /\ [](InControl => localVal = val[index])

\* control() runs in an iteration whose poll returned Triggered: the mode
\* advance of this iteration is still to come.
C14_Witness ==
  pc = "ctl_pass" /\ switchState = 1 /\ passes >= 1 /\ localVal = val[index]

\* C15: relay and indicator are off at the start of every iteration of
\* loop(), throughout selection() and inspectContents(), and once the capture
\* loop has ended; the relay is on only inside control() or in the capture
\* loop after MODE was sampled as held.
C15_RelayDiscipline ==
  /\ pc \in {"loop", "sel_wait", "sel_loop", "sel_ret", "inspect", "calib_save"}
       => ~relay /\ ~led
  /\ relay => InControl \/ (pc = "calib" /\ mRead = PRESSED)

\* The capture loop has ended after a held sample switched the relay on.
C15_Witness ==
  pc = "calib_save" /\ flag = 1 /\ mRead = RELEASED /\ ~relay /\ ~led

----------------------------------------------------------------------------
(* Frame of the storage and of the threshold table *)

SlotBytes(i) == address[i]..(address[i] + 3)

\* C16: loop(), control() and inspectContents() change neither the storage
\* nor val; the storage changes only when calibrateFunction() saves, and
\* then only in the four bytes of the calibrated preset, which get the bytes
\* of the captured value, least significant first, while the stored
\* thresholds of the other presets read as before; val changes only when
\* setup() loads it from the storage.
C16_StorageFrame ==
  /\ [][InControl \/ pc \in {"loop", "loop_mode", "inspect"} =>
          eeprom' = eeprom /\ val' = val]_vars
  /\ [][eeprom' # eeprom => pc = "calib_save"]_vars
  /\ [][val' # val => pc = "setup_load"]_vars
  /\ [][pc = "calib_save" =>
          /\ \A a \in EepromAddrs \ SlotBytes(localIndex) : eeprom'[a] = eeprom[a]
          /\ \A k \in 0..3 :
               eeprom'[address[localIndex] + k] = (localValue \div (256 ^ k)) % 256
          /\ \A j \in (0..2) \ {localIndex} :
               EEPROMRead(eeprom', address[j]) = EEPROMRead(eeprom, address[j])]_vars

\* Preset 2 has been calibrated to the reading below the sentinel: its bytes
\* are FE FF FF FF.
C16_Witness ==
  /\ pc = "setup_load"
  /\ ranCalib
  /\ localIndex = 2
  /\ localValue = Sentinel - 1
  /\ eeprom[address[2]] = 254
  /\ eeprom[address[2] + 3] = 255

----------------------------------------------------------------------------
(* Termination of control(), under SpecLive *)

\* Every reading of the latest filter pass is at or above the threshold.
AllAtOrAbove ==
  (pc \in {"ctl_pass", "ctl_end"} /\ passes >= 1) =>
    \A m \in 1..MedianCount : medianArray[m] >= localVal

DispenseEnded == pc = "loop_mode" /\ ~relay /\ ~led

\* C17: a thresholded dispense ends with relay and indicator off if from
\* some point on every reading is at or above the threshold, and a manual one
\* if from some point on DISPENSE is sampled released; there is no other way
\* out: a pass whose readings are all below the threshold, and a poll that
\* samples DISPENSE held, keep the relay on and the loop running.
C17_DispenseEnds ==
  /\ (<>[]AllAtOrAbove) => ((pc = "ctl_pass") ~> DispenseEnded)
  /\ (<>[](dRead = RELEASED)) => ((pc = "ctl_manual") ~> DispenseEnded)
  /\ [][pc = "ctl_pass" /\ (\A m \in 1..MedianCount : medianArray'[m] < localVal)
          => pc' = "ctl_pass" /\ relay' /\ led']_vars
  /\ [][pc = "ctl_manual" /\ dRead' = PRESSED
          => pc' = "ctl_manual" /\ relay' /\ led']_vars

\* A thresholded dispense went on through a pass of low readings and then
\* met a pass whose readings are all at or above the threshold.
C17_Witness ==
  /\ pc = "ctl_end"
  /\ Thresholded
  /\ passes >= 2
  /\ \A m \in 1..MedianCount : medianArray[m] >= localVal

----------------------------------------------------------------------------
(* Properties of selection() and of the shared debounce register *)

\* C18: selection() returns a preset in 0..2, and the preset it returns is
\* the one the display showed when DISPENSE was sampled as pressed.
C18_ReturnsShownPreset ==
  [][pc = "sel_loop" /\ pc' = "sel_ret" =>
       /\ selectionIndex' \in 0..2
       /\ lcd = Home(selectionIndex')]_vars

\* C19: loop() advances the mode only after one of its own polls has
\* sampled MODE as pressed.
C19_AdvanceNeedsLoopPress ==
  [][pc = "loop_mode" /\ index' # index => loopPressed]_vars

====
